---- MODULE Spec2Model ----
(***************************************************************************)
(* Kaspa Analytics Pro: the price-charts page and the technical-indicator  *)
(* computations it draws (rolling mean / rolling std / ewm mean of pandas, *)
(* and the indicator engine of utils.data that the page calls).            *)
(*                                                                         *)
(* A Streamlit script run starts from scratch: every handler below starts  *)
(* in the idle state, renders one page (or answers one engine call), and   *)
(* Rerun discards what it produced.                                        *)
(*                                                                         *)
(* Numbers: pandas works on float64.  The model computes every value as an *)
(* exact rational <<numerator, denominator>> kept in lowest terms;         *)
(* <<0, 0>> is NaN (the "undefined" entry of an indicator series).  The    *)
(* square root of the rolling standard deviation is rounded down to        *)
(* 1/StdScale.                                                             *)
(***************************************************************************)
EXTENDS Integers, Sequences, FiniteSets, TLC

(* ----------------------------- bounds --------------------------------- *)
MaxPrice == 2      \* prices are drawn from 0..MaxPrice
MaxLen == 4        \* exhaustively enumerated series have 0..MaxLen samples
MaxTail == 2       \* samples that vary at the end of a long series: 0..MaxTail
MaxParam == 3      \* windows, spans and periods of engine calls: 1..MaxParam
MaxDefaultLen == 2 \* varying series the default 12/26/9 MACD is evaluated on
StdScale == 100    \* resolution of the square root (1/StdScale)
SamplesPerDay == 2 \* samples of one day; the statistics look back 1 and 7 days
MaxMargin == 1     \* frame lengths within MaxMargin of the start of a window

\* rows the pages take per day and per chart
ChartsRowsPerDay == 24
PreviewRows == 30
YearRows == 365
HoursPerDay == 24

(* ------------------------ program constants --------------------------- *)
SMA20Window == 20  \* df['price'].rolling(window=20).mean()
SMA50Window == 50  \* df['price'].rolling(window=50).mean()
EMA12Span == 12    \* df['price'].ewm(span=12).mean()
EMA26Span == 26    \* df['price'].ewm(span=26).mean()
BBWindow == 20     \* bb_middle / bb_std rolling(window=20)
BBNumStd == 2      \* bb_std * 2
RSIPeriod == 14    \* rsi(series, period=14); "RSI (14)"
MACDFast == 12     \* macd(series, fast=12, slow=26, signal=9)
MACDSlow == 26
MACDSignal == 9
RampLen == 30      \* the scenario series 1, 2, ..., 30

(* --------------------------- rationals -------------------------------- *)
NaN == <<0, 0>>

Min2(a, b) == IF a < b THEN a ELSE b

Abs(x) == IF x < 0 THEN -x ELSE x

RECURSIVE GCD(_, _)
GCD(a, b) == IF b = 0 THEN a ELSE GCD(b, a % b)

\* n/d in lowest terms with a positive denominator; NaN when d = 0
Norm(n, d) ==
    IF d = 0 THEN NaN
    ELSE LET g == GCD(Abs(n), Abs(d))
             s == IF d < 0 THEN -1 ELSE 1
         IN  <<s * (n \div g), s * (d \div g)>>

R(n) == <<n, 1>>

IsDefined(x) == x[2] # 0

RAdd(a, b) ==
    IF ~IsDefined(a) \/ ~IsDefined(b) THEN NaN
    ELSE LET g == GCD(a[2], b[2])
         IN  Norm(a[1] * (b[2] \div g) + b[1] * (a[2] \div g), (a[2] \div g) * b[2])

RNeg(a) == IF IsDefined(a) THEN <<-a[1], a[2]>> ELSE NaN

RSub(a, b) == RAdd(a, RNeg(b))

RMul(a, b) ==
    IF ~IsDefined(a) \/ ~IsDefined(b) THEN NaN
    ELSE LET g1 == GCD(Abs(a[1]), b[2])
             g2 == GCD(Abs(b[1]), a[2])
         IN  Norm((a[1] \div g1) * (b[1] \div g2), (a[2] \div g2) * (b[2] \div g1))

\* float division: x/0 is not a number the callers can use
RDiv(a, b) ==
    IF ~IsDefined(a) \/ ~IsDefined(b) \/ b[1] = 0 THEN NaN
    ELSE RMul(a, IF b[1] < 0 THEN <<-b[2], -b[1]>> ELSE <<b[2], b[1]>>)

\* a <= b, both defined
RLeq(a, b) == a[1] * b[2] <= b[1] * a[2]

RECURSIVE Pow(_, _)
Pow(b, e) == IF e = 0 THEN 1 ELSE b * Pow(b, e - 1)

\* largest r in lo..hi with r*r <= n   (lo*lo <= n)
RECURSIVE ISqrtIn(_, _, _)
ISqrtIn(n, lo, hi) ==
    IF lo >= hi THEN lo
    ELSE LET mid == (lo + hi + 1) \div 2
         IN  IF mid * mid <= n THEN ISqrtIn(n, mid, hi) ELSE ISqrtIn(n, lo, mid - 1)

ISqrt(n) == ISqrtIn(n, 0, IF n < 46340 THEN n ELSE 46340)

(* ------------------------- price series ------------------------------- *)
Prices == 0..MaxPrice

\* every series of 0..MaxLen samples
ShortSeries == UNION {[1..n -> Prices] : n \in 0..MaxLen}

Pad(p, n) == [i \in 1..n |-> p]

Tails == UNION {[1..n -> Prices] : n \in 0..MaxTail}

\* series around a rolling window w: w-1 equal samples, then a varying tail
LongSeries(w) == {Pad(1, w - 1) \o t : t \in Tails}

Ramp(n) == [i \in 1..n |-> i]

\* what fetch_kaspa_price_data may return
Inputs == ShortSeries \cup LongSeries(SMA20Window) \cup LongSeries(SMA50Window)

\* series on which the default-parameter engine is evaluated exactly
DefaultInputs ==
    {s \in ShortSeries : Len(s) <= MaxDefaultLen}
    \cup {Pad(p, BBWindow + 1) : p \in Prices}

\* s[lo] + ... + s[hi], summed by halves
RECURSIVE SumRange(_, _, _)
SumRange(s, lo, hi) ==
    IF lo > hi THEN 0
    ELSE IF lo = hi THEN s[lo]
    ELSE LET mid == (lo + hi) \div 2
         IN  SumRange(s, lo, mid) + SumRange(s, mid + 1, hi)

\* s[lo]^2 + ... + s[hi]^2
RECURSIVE SumSqRange(_, _, _)
SumSqRange(s, lo, hi) ==
    IF lo > hi THEN 0
    ELSE IF lo = hi THEN s[lo] * s[lo]
    ELSE LET mid == (lo + hi) \div 2
         IN  SumSqRange(s, lo, mid) + SumSqRange(s, mid + 1, hi)

(* ---------------------- pandas window functions ----------------------- *)
\* rolling(window=w, min_periods=1).mean(): averages the partial windows too
rolling_mean_min_periods_1(s, w) ==
    [i \in 1..Len(s) |->
        IF i < w THEN Norm(SumRange(s, 1, i), i) ELSE Norm(SumRange(s, i - w + 1, i), w)]

\* a window that starts one sample late
rolling_mean_short_window(s, w) ==
    [i \in 1..Len(s) |-> IF i < w THEN NaN ELSE Norm(SumRange(s, i - w + 2, i), w)]

\* Series.rolling(window=w).mean(): min_periods defaults to the window
rolling_mean(s, w) ==
    [i \in 1..Len(s) |-> IF i < w THEN NaN ELSE Norm(SumRange(s, i - w + 1, i), w)]

\* Series.rolling(window=w).std(): sample standard deviation (ddof = 1)
rolling_std(s, w) ==
    [i \in 1..Len(s) |->
        IF i < w \/ w < 2 THEN NaN
        ELSE LET sm == SumRange(s, i - w + 1, i)
                 sq == SumSqRange(s, i - w + 1, i)
                 num == w * sq - sm * sm          \* variance = num / (w*(w-1))
             IN  Norm(ISqrt((num * StdScale * StdScale) \div (w * (w - 1))), StdScale)]

\* ewm(span=n, min_periods=n).mean(): no value before n samples were seen
ewm_mean_min_periods(s, n) ==
    [t \in 1..Len(s) |-> IF t < n THEN NaN ELSE R(s[t])]

\* Series.ewm(span=n).mean(): adjust=True, min_periods=0:
\* y[t] = sum_k (1-a)^k x[t-k] / sum_k (1-a)^k, with 1-a = (n-1)/(n+1)
RECURSIVE EwmNum(_, _, _, _)
EwmNum(s, n, t, k) ==
    IF k >= t THEN 0
    ELSE Pow(n - 1, k) * Pow(n + 1, t - 1 - k) * s[t - k] + EwmNum(s, n, t, k + 1)

RECURSIVE EwmDen(_, _, _)
EwmDen(n, t, k) ==
    IF k >= t THEN 0
    ELSE Pow(n - 1, k) * Pow(n + 1, t - 1 - k) + EwmDen(n, t, k + 1)

ewm_mean(s, n) == [t \in 1..Len(s) |-> Norm(EwmNum(s, n, t, 0), EwmDen(n, t, 0))]

(* -------------------- indicator engine (utils.data) ------------------- *)
Rationals(s) == [i \in 1..Len(s) |-> R(s[i])]

\* simple_moving_average(series, window): a window longer than the series
\* gives an all-undefined series
simple_moving_average(s, w) == rolling_mean(s, w)

\* exponential_moving_average(series, span): alpha = 2/(span+1), seeded
\* from the first sample
EmaStep(q, span, acc, t) ==
    Append(acc, IF t = 1 THEN q[1]
                ELSE RAdd(RMul(Norm(2, span + 1), q[t]),
                          RMul(Norm(span - 1, span + 1), acc[t - 1])))

\* acc holds the averages of the samples before lo; adds those of lo..hi
\* (the averages of lo..mid are complete before those of mid+1..hi start)
RECURSIVE EmaFold(_, _, _, _, _)
EmaFold(q, span, acc, lo, hi) ==
    IF lo > hi THEN acc
    ELSE IF lo = hi THEN EmaStep(q, span, acc, lo)
    ELSE LET mid == (lo + hi) \div 2
             left == EmaFold(q, span, acc, lo, mid)
         IN  IF Len(left) # mid THEN left
             ELSE EmaFold(q, span, left, mid + 1, hi)

exponential_moving_average(q, span) == EmaFold(q, span, <<>>, 1, Len(q))

\* bollinger_bands(series, window, num_std)
bollinger_bands(s, w, k) ==
    LET m == rolling_mean(s, w)
        sd == rolling_std(s, w)
    IN  [middle |-> m,
         upper |-> [i \in 1..Len(s) |-> RAdd(m[i], RMul(R(k), sd[i]))],
         lower |-> [i \in 1..Len(s) |-> RSub(m[i], RMul(R(k), sd[i]))]]

Gain(s, i) == IF s[i] > s[i - 1] THEN s[i] - s[i - 1] ELSE 0
Loss(s, i) == IF s[i] < s[i - 1] THEN s[i - 1] - s[i] ELSE 0

Gains(s) == [i \in 1..Len(s) |-> IF i = 1 THEN 0 ELSE Gain(s, i)]
Losses(s) == [i \in 1..Len(s) |-> IF i = 1 THEN 0 ELSE Loss(s, i)]

\* Wilder's averages at sample i > p: a simple average of the first p
\* changes, then avg = (prev_avg*(p-1) + current)/p
WilderStep(c, p, prev, i) == RDiv(RAdd(RMul(prev, R(p - 1)), R(c[i])), R(p))

\* prev is the average at sample lo-1; the average at sample hi.  An
\* undefined average stays undefined.
RECURSIVE WilderFold(_, _, _, _, _)
WilderFold(c, p, prev, lo, hi) ==
    IF lo > hi THEN prev
    ELSE IF lo = hi THEN WilderStep(c, p, prev, lo)
    ELSE LET mid == (lo + hi) \div 2
             left == WilderFold(c, p, prev, lo, mid)
         IN  IF ~IsDefined(left) THEN NaN
             ELSE WilderFold(c, p, left, mid + 1, hi)

Wilder(c, p, i) == WilderFold(c, p, Norm(SumRange(c, 2, p + 1), p), p + 2, i)

AvgGain(s, p, i) == Wilder(Gains(s), p, i)

AvgLoss(s, p, i) == Wilder(Losses(s), p, i)

\* the relative strength taken for the index: 100 - 100/RS
rsi_value_unbounded(ag, al) ==
    IF al[1] = 0 THEN R(100)
    ELSE RSub(R(100), RDiv(R(100), RDiv(ag, al)))

\* no special case for avg_loss = 0: the division decides
rsi_value_no_zero_check(ag, al) ==
    RSub(R(100), RDiv(R(100), RAdd(R(1), RDiv(ag, al))))

\* RSI = 100 - 100/(1 + avg_gain/avg_loss); 100 when avg_loss is exactly 0
rsi_value(ag, al) ==
    IF al[1] = 0 THEN R(100)
    ELSE RSub(R(100), RDiv(R(100), RAdd(R(1), RDiv(ag, al))))

\* rsi(series, period): undefined for the first `period` samples
rsi(s, p) ==
    [i \in 1..Len(s) |->
        IF i <= p THEN NaN ELSE rsi_value(AvgGain(s, p, i), AvgLoss(s, p, i))]

\* the histogram taken as signal - macd_line
macd_swapped_histogram(s, fast, slow, signal) ==
    LET q == Rationals(s)
        ef == exponential_moving_average(q, fast)
        es == exponential_moving_average(q, slow)
        line == [i \in 1..Len(s) |-> RSub(ef[i], es[i])]
        sig == exponential_moving_average(line, signal)
    IN  [macd_line |-> line,
         signal |-> sig,
         histogram |-> [i \in 1..Len(s) |-> RSub(sig[i], line[i])]]

\* macd(series, fast, slow, signal)
macd(s, fast, slow, signal) ==
    LET q == Rationals(s)
        ef == exponential_moving_average(q, fast)
        es == exponential_moving_average(q, slow)
        line == [i \in 1..Len(s) |-> RSub(ef[i], es[i])]
        sig == exponential_moving_average(line, signal)
    IN  [macd_line |-> line,
         signal |-> sig,
         histogram |-> [i \in 1..Len(s) |-> RSub(line[i], sig[i])]]

\* the most recent defined value of a series; NaN when none is defined
last_defined(q) ==
    LET defined == {i \in 1..Len(q) : IsDefined(q[i])}
    IN  IF defined = {} THEN NaN
        ELSE q[CHOOSE i \in defined : \A j \in defined : j <= i]

\* a zero band width answered with the degenerate position 0
bb_position_zero_width_0(price, upper, lower) ==
    IF ~IsDefined(upper) \/ ~IsDefined(lower) THEN NaN
    ELSE IF upper = lower THEN R(0)
    ELSE RDiv(RSub(R(price), lower), RSub(upper, lower))

\* bb_position = (current_price - lower)/(upper - lower); undefined when
\* a band is undefined or the band width is zero
bb_position(price, upper, lower) ==
    IF ~IsDefined(upper) \/ ~IsDefined(lower) \/ upper = lower THEN NaN
    ELSE RDiv(RSub(R(price), lower), RSub(upper, lower))

\* the Bollinger part of compute_all: the default bands and the position
\* of the last price between the latest defined bands
snapshot_bb_position(s) ==
    LET b == bollinger_bands(s, BBWindow, BBNumStd)
    IN  [bb_upper |-> b.upper,
         bb_lower |-> b.lower,
         bb_position |-> bb_position(s[Len(s)], last_defined(b.upper),
                                     last_defined(b.lower))]

\* every indicator with its default parameters: the series map and the
\* snapshot ('current_values')
run_indicators(s) ==
    LET r == rsi(s, RSIPeriod)
        m == macd(s, MACDFast, MACDSlow, MACDSignal)
        b == bollinger_bands(s, BBWindow, BBNumStd)
    IN  [rsi |-> r,
         macd_line |-> m.macd_line,
         macd_signal |-> m.signal,
         macd_histogram |-> m.histogram,
         bb_upper |-> b.upper,
         bb_middle |-> b.middle,
         bb_lower |-> b.lower,
         current_values |->
            [rsi |-> last_defined(r),
             macd |-> last_defined(m.macd_line),
             bb_position |-> snapshot_bb_position(s).bb_position]]

(* --------------- market stats summarizer (utils.data) ----------------- *)
\* the lookbacks, in samples, of the 24h and the 7d statistics
Lookback24h == SamplesPerDay
Lookback7d == 7 * SamplesPerDay

\* a price sample: low <= close <= high, volume >= 0
Candle(c, spread) ==
    [close |-> c, high |-> c + spread,
     low |-> IF spread > c THEN 0 ELSE c - spread, volume |-> 1 + spread]

Candles == {Candle(c, spread) : c \in Prices, spread \in 0..1}

\* frames of up to one sample more than a day
CandleSeries == UNION {[1..n -> Candles] : n \in 0..(SamplesPerDay + 1)}

\* the frame of a price column whose samples did not move within the sample
Flat(d) == [i \in 1..Len(d) |-> Candle(d[i], 0)]

\* how a statistic without enough history appears in the mapping: as a
\* not-a-number value, or as a key the mapping does not hold
MissingAs == {"nan", "absent"}

\* percent change between the last close and the close n samples back
price_change(f, n) ==
    IF Len(f) <= n THEN NaN
    ELSE RMul(R(100), RDiv(R(f[Len(f)].close - f[Len(f) - n].close),
                           R(f[Len(f) - n].close)))

\* the whole frame taken as the trailing window
window_start_whole(f, n) == 1

\* first index of the trailing window of n samples
window_start(f, n) == IF Len(f) > n THEN Len(f) - n + 1 ELSE 1

Window(f, n) == window_start(f, n)..Len(f)

StatKeys ==
    {"current_price", "price_change_24h", "price_change_7d",
     "high_24h", "low_24h", "volume_24h"}

\* get_market_stats(df) on a non-empty frame
get_market_stats(f, missing) ==
    LET w == Window(f, Lookback24h)
        all == [current_price |-> R(f[Len(f)].close),
                price_change_24h |-> price_change(f, Lookback24h),
                price_change_7d |-> price_change(f, Lookback7d),
                high_24h |-> R(CHOOSE h \in {f[i].high : i \in w} :
                                  \A i \in w : f[i].high <= h),
                low_24h |-> R(CHOOSE l \in {f[i].low : i \in w} :
                                 \A i \in w : l <= f[i].low),
                volume_24h |-> R(SumRange([i \in 1..Len(f) |-> f[i].volume],
                                          window_start(f, Lookback24h), Len(f)))]
        short == {k \in {"price_change_24h"} : Len(f) <= Lookback24h}
                 \cup {k \in {"price_change_7d"} : Len(f) <= Lookback7d}
        held == IF missing = "absent" THEN StatKeys \ short ELSE StatKeys
    IN  [k \in held |-> all[k]]

(* ------------------------------ state --------------------------------- *)
VARIABLES
    df,          \* the price column of the frame fetch_kaspa_price_data returned
    page,        \* what this script run rendered
    traces,      \* chart traces added by create_professional_chart: name -> series
    metrics,     \* the st.metric boxes render_indicators_tab displayed
    shown,       \* the texts of the market-statistics st.metric boxes
    call,        \* the engine call of this run and its outcome
    previous,    \* the latest compute_all call of the earlier runs and its outcome
    series,      \* the price series callers hand to concurrent engine calls
    calls,       \* the concurrent engine calls in progress, one per caller
    session_state,  \* st.session_state: the auth config and the login keys
    config_file,    \* config/user_config.yaml
    export_page,    \* what the Data Export page rendered in this script run
    auth_call       \* the latest call into utils.auth and its outcome

pageVars == <<df, page, traces, metrics, shown, call, previous>>
engineVars == <<series, calls>>
sessionVars == <<session_state, config_file, export_page, auth_call>>
vars == <<pageVars, engineVars, sessionVars>>

NoCall == [fn |-> "none"]
NoTraces == [x \in {} |-> <<>>]
NoOutput == <<>>

\* an engine that keeps the last sample of the earlier call in a buffer
\* shared between calls
compute_all_shared_buffer(s) ==
    IF previous = NoCall \/ Len(previous.series) = 0 \/ Len(s) > MaxDefaultLen
    THEN run_indicators(s)
    ELSE run_indicators(<<previous.series[Len(previous.series)]>> \o s)

\* compute_all(price_series): a function of the series alone
compute_all(s) == run_indicators(s)
NoStats == [k \in {} |-> NaN]
NoShown == [k \in {} |-> <<>>]

Idle == page = "idle" /\ call = NoCall

\* idle, and no run has called compute_all yet
FirstRun == Idle /\ previous = NoCall

SnapshotCalls == {"compute_all", "get_technical_indicators"}

\* no script run has started
PagesIdle ==
    /\ df = <<>>
    /\ page = "idle"
    /\ traces = NoTraces
    /\ metrics = {}
    /\ shown = NoShown
    /\ call = NoCall
    /\ previous = NoCall

\* no caller runs engine calls side by side
NoCallers ==
    /\ series = <<>>
    /\ calls = <<>>

(* -------------------- the session and utils.auth ---------------------- *)
\* subscription levels; "trial" and "Premium" are levels none of the tables
\* names
Levels == {"public", "free", "premium", "trial", "Premium"}

\* a key that is not in a dictionary
Absent == "absent"

\* a credentials table without users
NoConfig == [u \in {} |-> Absent]

\* a password as the config holds it: the text itself or a bcrypt hash of it
Plain(p) == [kind |-> "plain", of |-> p]

\* an entry of default_config
DefaultEntry(email, first_name, password, subscription) ==
    [email |-> email, first_name |-> first_name, last_name |-> "User",
     password |-> Plain(password), subscription |-> subscription,
     failed_login_attempts |-> 0, logged_in |-> FALSE]

\* default_config: credentials.usernames
default_config ==
    "admin" :> DefaultEntry("admin@kaspalytics.com", "Admin", "admin123", "premium")
    @@ "premium_user" :> DefaultEntry("premium@example.com", "Premium", "premium123", "premium")
    @@ "free_user" :> DefaultEntry("free@example.com", "Free", "free123", "free")

\* a file in which free_user was upgraded and the user 'public' has no
\* subscription key
edited_config ==
    "admin" :> default_config["admin"]
    @@ "free_user" :> [default_config["free_user"] EXCEPT !.subscription = "premium"]
    @@ "public" :> [email |-> "public@example.com", password |-> Plain("public123")]

\* the top-level keys of a config
ConfigKeys == {"credentials", "cookie", "preauthorized"}

\* config/user_config.yaml: missing, unreadable (open or yaml.load raises:
\* no permission, not YAML), without any document (yaml.load returns None),
\* or holding a config
ConfigFiles ==
    {[state |-> s, config |-> NoConfig] : s \in {"missing", "unreadable", "empty"}}
    \cup {[state |-> "readable", config |-> edited_config]}

\* the display name the login stores in st.session_state['name']
full_name ==
    [u \in {"admin", "premium_user", "free_user", "public", "ghost"} |->
        CASE u = "admin" -> "Admin User"
          [] u = "premium_user" -> "Premium User"
          [] u = "free_user" -> "Free User"
          [] u = "public" -> "Public User"
          [] OTHER -> "Ghost User"]

\* an st.session_state without any key
NewSessionState ==
    [has_auth_config |-> FALSE, config_keys |-> {}, auth_config |-> NoConfig,
     authentication_status |-> Absent, username |-> Absent, name |-> Absent]

\* the config get_auth_config builds before it looks at the session: what
\* yaml.load returns when the file exists, the default when it does not or
\* when reading it raises
load_config(file) ==
    CASE file.state = "readable" -> [keys |-> ConfigKeys, usernames |-> file.config]
      [] file.state = "empty" -> [keys |-> {}, usernames |-> NoConfig]
      [] OTHER -> [keys |-> ConfigKeys, usernames |-> default_config]

\* a get_auth_config that stores what it loaded on every call
store_always(ss, config) ==
    [ss EXCEPT !.has_auth_config = TRUE, !.config_keys = config.keys,
               !.auth_config = config.usernames]

\* if 'auth_config' not in st.session_state: st.session_state.auth_config = config
store_if_absent(ss, config) ==
    IF ~ss.has_auth_config
    THEN [ss EXCEPT !.has_auth_config = TRUE, !.config_keys = config.keys,
                    !.auth_config = config.usernames]
    ELSE ss

\* get_auth_config(): the session after the call; the call returns its
\* auth_config
get_auth_config(ss, file) == store_if_absent(ss, load_config(file))

is_authenticated(ss) == ss.authentication_status = "True"

\* config['credentials'] can be subscripted
has_credentials(ss) == "credentials" \in ss.config_keys

\* config['credentials']['usernames'].get(username, {}).get('subscription', 'free')
subscription_of(config, username) ==
    IF username \notin DOMAIN config THEN "free"
    ELSE IF "subscription" \notin DOMAIN config[username] THEN "free"
    ELSE config[username].subscription

PublicUser ==
    [name |-> "Public User", username |-> "public", subscription |-> "public"]

\* get_current_user() raises: the stored config has no 'credentials'
get_current_user_raises(ss, file) ==
    is_authenticated(ss) /\ ~has_credentials(get_auth_config(ss, file))

get_current_user(ss, file) ==
    IF is_authenticated(ss)
    THEN [name |-> ss.name, username |-> ss.username,
          subscription |-> subscription_of(get_auth_config(ss, file).auth_config,
                                           ss.username)]
    ELSE PublicUser

\* the session after get_current_user(): only the authenticated branch
\* calls get_auth_config
after_get_current_user(ss, file) ==
    IF is_authenticated(ss) THEN get_auth_config(ss, file) ELSE ss

\* the features table of get_subscription_features
features ==
    [l \in {"public", "free", "premium"} |->
        [export |-> l = "premium", api |-> l = "premium",
         support |-> IF l = "premium" THEN "email" ELSE "community"]]

\* a table lookup that falls back to the premium row
get_subscription_features_premium_default(subscription_level) ==
    IF subscription_level \in DOMAIN features
    THEN features[subscription_level]
    ELSE features["premium"]

\* features.get(subscription_level, features['public'])
get_subscription_features(subscription_level) ==
    IF subscription_level \in DOMAIN features
    THEN features[subscription_level]
    ELSE features["public"]

AllLevels == {"public", "free", "premium"}

feature_requirements ==
    [f \in {"price_charts", "power_law", "network_metrics",
            "technical_indicators", "advanced_charts", "data_export",
            "api_access"} |->
        IF f \in {"data_export", "api_access"} THEN {"premium"} ELSE AllLevels]

FeatureNames == DOMAIN feature_requirements \cup {"alerts"}

check_feature_access(feature_name, user_subscription) ==
    user_subscription \in
        (IF feature_name \in DOMAIN feature_requirements
         THEN feature_requirements[feature_name]
         ELSE AllLevels)

NoView == [page |-> "none"]
NoAuthCall == [fn |-> "none"]

\* a browser session that has not run any page yet; no config file
NoVisitor ==
    /\ session_state = NewSessionState
    /\ config_file = [state |-> "missing", config |-> NoConfig]
    /\ export_page = NoView
    /\ auth_call = NoAuthCall

Init ==
    /\ PagesIdle
    /\ NoCallers
    /\ NoVisitor

\* the script run ends; nothing it computed is kept
Rerun ==
    /\ ~Idle
    /\ df' = <<>>
    /\ page' = "idle"
    /\ traces' = NoTraces
    /\ metrics' = {}
    /\ shown' = NoShown
    /\ call' = NoCall
    /\ previous' = IF call.fn \in SnapshotCalls THEN call ELSE previous
    /\ UNCHANGED <<engineVars, sessionVars>>

(* -------------------------- charts page ------------------------------- *)
Overlays == {"SMA 20", "SMA 50", "EMA 12", "EMA 26", "Bollinger Bands"}

\* the selections of the "Overlay Indicators" multiselect that are drawn:
\* none, each overlay alone, the default selection, and all of them
OverlayChoices ==
    {{}} \cup {{o} : o \in Overlays} \cup {{"SMA 20", "Bollinger Bands"}} \cup {Overlays}

TraceNames(sel) ==
    (sel \cap {"SMA 20", "SMA 50", "EMA 12", "EMA 26"})
    \cup (IF "Bollinger Bands" \in sel THEN {"BB Upper", "BB Lower", "BB Middle"} ELSE {})

\* bb_middle = df['price'].rolling(window=20).mean()
bb_middle(d) == rolling_mean(d, BBWindow)

\* bb_std = df['price'].rolling(window=20).std()
bb_std(d) == rolling_std(d, BBWindow)

\* the upper band drawn below the middle one
bb_upper_minus(d) ==
    LET m == rolling_mean(d, BBWindow)
        sd == rolling_std(d, BBWindow)
    IN  [i \in 1..Len(d) |-> RSub(m[i], RMul(sd[i], R(BBNumStd)))]

\* bb_upper = bb_middle + (bb_std * 2)
bb_upper(d) ==
    LET m == bb_middle(d)
        sd == bb_std(d)
    IN  [i \in 1..Len(d) |-> RAdd(m[i], RMul(sd[i], R(BBNumStd)))]

\* bb_lower = bb_middle - (bb_std * 2)
bb_lower(d) ==
    LET m == bb_middle(d)
        sd == bb_std(d)
    IN  [i \in 1..Len(d) |-> RSub(m[i], RMul(sd[i], R(BBNumStd)))]

\* the overlay loop of create_professional_chart
overlay_trace(d, name) ==
    CASE name = "SMA 20" -> rolling_mean(d, SMA20Window)
      [] name = "SMA 50" -> rolling_mean(d, SMA50Window)
      [] name = "EMA 12" -> ewm_mean(d, EMA12Span)
      [] name = "EMA 26" -> ewm_mean(d, EMA26Span)
      [] name = "BB Upper" -> bb_upper(d)
      [] name = "BB Lower" -> bb_lower(d)
      [] name = "BB Middle" -> bb_middle(d)

create_professional_chart(d, sel) == [name \in TraceNames(sel) |-> overlay_trace(d, name)]

\* the page goes on whatever the frame holds
df_empty_never(d) == FALSE

\* df.empty
df_empty(d) == Len(d) = 0

\* stats.get(key, 0)
stats_get(stats, key, default) ==
    IF key \in DOMAIN stats THEN stats[key] ELSE default

\* f"{value:+.2f}%": sign, then the value rounded to hundredths; a
\* not-a-number value prints as +nan%
format_signed_2f(v) ==
    IF ~IsDefined(v) THEN <<"+", "nan", 0>>
    ELSE <<IF v[1] < 0 THEN "-" ELSE "+", "number",
           (2 * 100 * Abs(v[1]) + v[2]) \div (2 * v[2])>>

\* the delta of the 'Current Price' box of render_market_statistics
render_market_statistics(f, missing) ==
    [delta |-> format_signed_2f(
                   stats_get(get_market_stats(f, missing), "price_change_24h", R(0)))]

\* render_advanced_charts, 'Chart' tab: render_main_chart_tab draws the
\* selected overlays.  The EMA overlays are evaluated on the short series,
\* where their exact weights fit the integers of the checker.
RenderChartTab ==
    /\ FirstRun
    /\ \E d \in Inputs, sel \in OverlayChoices :
      \E missing \in IF Len(d) <= Lookback24h THEN MissingAs ELSE {"nan"} :
        /\ (sel \cap {"EMA 12", "EMA 26"} # {}) => d \in ShortSeries
        /\ df' = d
        /\ IF df_empty(d)
           THEN /\ page' = "error"        \* st.error("Unable to load price data")
                /\ traces' = NoTraces
                /\ shown' = NoShown
           ELSE /\ traces' = create_professional_chart(d, sel)
                /\ IF Len(d) = 0        \* get_market_stats refuses an empty frame
                   THEN page' = "exception" /\ shown' = NoShown
                   ELSE /\ page' = "chart"
                        /\ shown' = render_market_statistics(Flat(d), missing)
    /\ metrics' = {}
    /\ call' = NoCall
    /\ previous' = previous
    /\ UNCHANGED <<engineVars, sessionVars>>

\* an engine call on an empty series raises EmptySeriesError and returns nothing
Raised(fn, s, args) ==
    [fn |-> fn, series |-> s, args |-> args, raised |-> "EmptySeriesError",
     out |-> NoOutput]

Returned(fn, s, args, result) ==
    [fn |-> fn, series |-> s, args |-> args, raised |-> "none", out |-> result]

\* combining two precomputed series of different lengths raises
\* MisalignedSeriesError and returns nothing
Misaligned(fn, s, args) ==
    [fn |-> fn, series |-> s, args |-> args, raised |-> "MisalignedSeriesError",
     out |-> NoOutput]

\* the difference cut to the shorter of the two series
subtract_series_truncating(a, b) ==
    IF Len(a) = 0 THEN Raised("subtract_series", a, <<b>>)
    ELSE Returned("subtract_series", a, <<b>>,
                  [i \in 1..Min2(Len(a), Len(b)) |-> R(a[i] - b[i])])

\* the pointwise difference of two precomputed series (as macd_line -
\* signal): the series must align
subtract_series(a, b) ==
    IF Len(a) = 0 THEN Raised("subtract_series", a, <<b>>)
    ELSE IF Len(a) # Len(b) THEN Misaligned("subtract_series", a, <<b>>)
    ELSE Returned("subtract_series", a, <<b>>, [i \in 1..Len(a) |-> R(a[i] - b[i])])

\* the series of a compute_all call: any, in the first run that calls it;
\* in a later run, the series of the earlier call once more
SnapshotInputs == IF previous = NoCall THEN DefaultInputs ELSE {previous.series}

\* get_technical_indicators(df): the engine's compute_all
get_technical_indicators(d) ==
    IF Len(d) = 0 THEN Raised("get_technical_indicators", d, <<>>)
    ELSE Returned("get_technical_indicators", d, <<>>, compute_all(d))

\* `if rsi_value:` / `if macd_value:` / `if bb_position:` on a snapshot value
truthy(v) == IsDefined(v) /\ v[1] # 0

SnapshotKeys == {"rsi", "macd", "bb_position"}

\* render_advanced_charts, 'Indicators' tab: render_indicators_tab
\* the tabs of the detailed indicator charts
IndicatorTabs == {"RSI", "MACD", "Bollinger Bands"}

\* render_rsi_chart / render_macd_chart / render_bollinger_chart: the
\* traces drawn over df['timestamp'] (an empty list is not drawn)
indicator_chart(d, out, tab) ==
    LET wanted ==
            IF tab = "RSI" THEN [t \in {"RSI"} |-> out["rsi"]]
            ELSE IF tab = "MACD"
            THEN [t \in {"MACD", "Signal", "Histogram"} |->
                    IF t = "MACD" THEN out["macd_line"]
                    ELSE IF t = "Signal" THEN out["macd_signal"]
                    ELSE out["macd_histogram"]]
            ELSE [t \in {"Price", "Upper Band", "Lower Band", "Middle Band (SMA 20)"} |->
                    IF t = "Price" THEN Rationals(d)
                    ELSE IF t = "Upper Band" THEN out["bb_upper"]
                    ELSE IF t = "Lower Band" THEN out["bb_lower"]
                    ELSE out["bb_middle"]]
        first == IF tab = "RSI" THEN "RSI" ELSE IF tab = "MACD" THEN "MACD" ELSE "Upper Band"
    IN  IF Len(wanted[first]) = 0 THEN NoTraces     \* "... data not available"
        ELSE [t \in {u \in DOMAIN wanted : u = "Price" \/ Len(wanted[u]) > 0} |-> wanted[t]]

RenderIndicatorsTab ==
    /\ Idle
    /\ \E d \in SnapshotInputs, tab \in IndicatorTabs :
        /\ df' = d
        /\ IF df_empty(d)
           THEN /\ page' = "error"
                /\ metrics' = {}
                /\ traces' = NoTraces
                /\ call' = NoCall
           ELSE LET ind == get_technical_indicators(d)
                IN  /\ call' = ind
                    /\ IF ind.raised # "none"
                       THEN /\ page' = "exception"    \* nothing catches it
                            /\ metrics' = {}
                            /\ traces' = NoTraces
                       ELSE /\ page' = "indicators"
                            /\ metrics' = {k \in SnapshotKeys :
                                              truthy(ind.out["current_values"][k])}
                            /\ traces' = indicator_chart(d, ind.out, tab)
    /\ shown' = NoShown
    /\ previous' = previous
    /\ UNCHANGED <<engineVars, sessionVars>>

(* ----------------------------- homepage ------------------------------- *)
\* what fetch_kaspa_price_data() may return to the homepage
HomeInputs == ShortSeries \cup LongSeries(Lookback7d)

\* `get_market_stats(df) if not df.empty else {}`, then the delta of the
\* 'KAS Price' box
homepage_delta(d, key, missing) ==
    LET stats == IF df_empty(d) THEN NoStats ELSE get_market_stats(Flat(d), missing)
    IN  [delta |-> format_signed_2f(stats_get(stats, key, R(0)))]

RenderHomepage(name, key) ==
    /\ FirstRun
    /\ \E d \in HomeInputs, missing \in MissingAs :
        /\ df' = d
        /\ shown' = homepage_delta(d, key, missing)
    /\ page' = name
    /\ traces' = NoTraces
    /\ metrics' = {}
    /\ call' = NoCall
    /\ previous' = previous
    /\ UNCHANGED <<engineVars, sessionVars>>

\* main() of the homepage without a login: render_public_homepage
RenderPublicHomepage == RenderHomepage("public_home", "price_change_7d")

\* main() of the homepage with a login: render_authenticated_homepage
RenderAuthenticatedHomepage == RenderHomepage("user_home", "price_change_24h")

(* ---------------------- calls of the engine --------------------------- *)
Params == 1..MaxParam

EngineCall(c) ==
    /\ call' = c
    /\ UNCHANGED <<df, page, traces, metrics, shown, previous>>
    /\ UNCHANGED <<engineVars, sessionVars>>

CallSimpleMovingAverage ==
    /\ FirstRun
    /\ \E s \in ShortSeries, w \in Params :
        EngineCall(IF Len(s) = 0 THEN Raised("simple_moving_average", s, <<w>>)
                   ELSE Returned("simple_moving_average", s, <<w>>,
                                 simple_moving_average(s, w)))

CallExponentialMovingAverage ==
    /\ FirstRun
    /\ \E s \in ShortSeries, span \in Params :
        EngineCall(IF Len(s) = 0 THEN Raised("exponential_moving_average", s, <<span>>)
                   ELSE Returned("exponential_moving_average", s, <<span>>,
                                 exponential_moving_average(Rationals(s), span)))

CallBollingerBands ==
    /\ FirstRun
    /\ \E s \in ShortSeries, w \in Params :
        EngineCall(IF Len(s) = 0 THEN Raised("bollinger_bands", s, <<w, BBNumStd>>)
                   ELSE Returned("bollinger_bands", s, <<w, BBNumStd>>,
                                 bollinger_bands(s, w, BBNumStd)))

RsiCalls == (ShortSeries \X Params) \cup {<<Ramp(RampLen), RSIPeriod>>}

CallRsi ==
    /\ FirstRun
    /\ \E c \in RsiCalls :
        EngineCall(IF Len(c[1]) = 0 THEN Raised("rsi", c[1], <<c[2]>>)
                   ELSE Returned("rsi", c[1], <<c[2]>>, rsi(c[1], c[2])))

CallMacd ==
    /\ FirstRun
    /\ \E s \in ShortSeries, fast \in Params, slow \in Params :
      \E signal \in {fast, slow} :
        /\ fast < slow
        /\ EngineCall(IF Len(s) = 0 THEN Raised("macd", s, <<fast, slow, signal>>)
                      ELSE Returned("macd", s, <<fast, slow, signal>>,
                                    macd(s, fast, slow, signal)))

CallComputeAll ==
    /\ Idle
    /\ \E s \in SnapshotInputs :
        EngineCall(IF Len(s) = 0 THEN Raised("compute_all", s, <<>>)
                   ELSE Returned("compute_all", s, <<>>, compute_all(s)))

\* the Bollinger part of compute_all on series around the band window,
\* where the default MACD weights exceed the integers of the checker
BbInputs ==
    {s \in ShortSeries : Len(s) <= MaxDefaultLen} \cup LongSeries(BBWindow)

CallSnapshotBbPosition ==
    /\ FirstRun
    /\ \E s \in BbInputs :
        EngineCall(IF Len(s) = 0 THEN Raised("snapshot_bb_position", s, <<>>)
                   ELSE Returned("snapshot_bb_position", s, <<>>,
                                 snapshot_bb_position(s)))

\* the series two precomputed series are drawn from
CombinedSeries == {s \in ShortSeries : Len(s) <= MaxDefaultLen}

CallSubtractSeries ==
    /\ FirstRun
    /\ \E a \in CombinedSeries, b \in CombinedSeries :
        EngineCall(subtract_series(a, b))

CallGetMarketStats ==
    /\ FirstRun
    /\ \E f \in CandleSeries, missing \in MissingAs :
        EngineCall(IF Len(f) = 0 THEN Raised("get_market_stats", f, <<missing>>)
                   ELSE Returned("get_market_stats", f, <<missing>>,
                                 get_market_stats(f, missing)))

Next ==
    \/ Rerun
    \/ RenderChartTab
    \/ RenderIndicatorsTab
    \/ RenderPublicHomepage
    \/ RenderAuthenticatedHomepage
    \/ CallSnapshotBbPosition
    \/ CallSubtractSeries
    \/ CallGetMarketStats
    \/ CallSimpleMovingAverage
    \/ CallExponentialMovingAverage
    \/ CallBollingerBands
    \/ CallRsi
    \/ CallMacd
    \/ CallComputeAll

Spec == Init /\ [][Next]_vars

(* ------------------- concurrent calls of the engine ------------------- *)
Callers == 1..2

\* the first series varies, the second is the ramp 1, 2, ...
SharedSeries ==
    {<<s, Ramp(MaxDefaultLen + 1)>> : s \in {t \in ShortSeries : Len(t) = MaxDefaultLen}}

NotCalling == [pc |-> "idle"]

\* a rolling computation that writes the sample it has read back as 0
after_read_consuming(s, i) == [s EXCEPT ![i] = 0]

\* the series after a call has read sample i of it: reads do not write
after_read(s, i) == s

\* a caller starts simple_moving_average(series[k], w)
BeginCall ==
    \E c \in Callers, k \in DOMAIN series, w \in Params :
        /\ calls[c].pc = "idle"
        /\ calls' = [calls EXCEPT ![c] =
                        [pc |-> "running", on |-> k, window |-> w, given |-> series[k],
                         i |-> 1, out |-> <<>>]]
        /\ UNCHANGED <<series, pageVars, sessionVars>>

\* the call computes its next entry from the series it was given
StepCall ==
    \E c \in Callers :
        /\ calls[c].pc = "running"
        /\ calls[c].i <= Len(series[calls[c].on])
        /\ calls' = [calls EXCEPT
                        ![c].out = Append(@, simple_moving_average(series[calls[c].on],
                                                                   calls[c].window)[calls[c].i]),
                        ![c].i = @ + 1]
        /\ series' = [series EXCEPT ![calls[c].on] = after_read(@, calls[c].i)]
        /\ UNCHANGED <<pageVars, sessionVars>>

\* the call returns its series
ReturnCall ==
    \E c \in Callers :
        /\ calls[c].pc = "running"
        /\ calls[c].i > Len(series[calls[c].on])
        /\ calls' = [calls EXCEPT ![c].pc = "returned"]
        /\ UNCHANGED <<series, pageVars, sessionVars>>

\* the caller drops the result
ReleaseCall ==
    \E c \in Callers :
        /\ calls[c].pc = "returned"
        /\ calls' = [calls EXCEPT ![c] = NotCalling]
        /\ UNCHANGED <<series, pageVars, sessionVars>>

ConcurrentInit ==
    /\ PagesIdle
    /\ NoVisitor
    /\ series \in SharedSeries
    /\ calls = [c \in Callers |-> NotCalling]

ConcurrentNext ==
    \/ BeginCall
    \/ StepCall
    \/ ReturnCall
    \/ ReleaseCall

ConcurrentSpec == ConcurrentInit /\ [][ConcurrentNext]_vars

(* ------------------ logins and the Data Export page ------------------- *)
LoginNames == {"admin", "free_user", "public", "ghost"}
NewNames == {"public", "free_user"}
UpdateNames == {"free_user", "public", "ghost"}
NewLevels == {"public", "free", "premium", "trial"}

\* what the Authenticate constructor leaves in the login keys it finds
\* missing: nothing, or None
LibraryDefaults == {Absent, "None"}

\* the other specifications do not touch the session
NoPages == UNCHANGED <<pageVars, engineVars>>

\* a new browser session: st.session_state starts without any key
NewSession ==
    /\ session_state # NewSessionState
    /\ session_state' = NewSessionState
    /\ export_page' = NoView
    /\ auth_call' = [fn |-> "new_session"]
    /\ UNCHANGED config_file
    /\ NoPages

\* the config file is written, replaced or removed outside the session
EditConfigFile ==
    /\ \E f \in ConfigFiles \ {config_file} : config_file' = f
    /\ UNCHANGED <<session_state, export_page, auth_call>>
    /\ NoPages

\* the login form of the authenticator built by get_authenticator(); the
\* authenticator's own bookkeeping in the credentials is left out.
\* get_authenticator() raises when the config has no 'credentials'.
login(ss, file, username, password_ok) ==
    LET stored == get_auth_config(ss, file)
    IN  IF ~has_credentials(stored) THEN stored
        ELSE IF username \in DOMAIN stored.auth_config /\ password_ok
        THEN [stored EXCEPT !.authentication_status = "True",
                            !.username = username,
                            !.name = full_name[username]]
        ELSE [stored EXCEPT !.authentication_status = "False",
                            !.username = "None",
                            !.name = "None"]

\* the username typed and whether the password matches; a wrong password
\* is tried for one username
LoginArguments ==
    {<<u, password_ok>> \in LoginNames \X BOOLEAN : password_ok \/ u = "admin"}

Login ==
    /\ ~is_authenticated(session_state)
    /\ \E a \in LoginArguments :
        LET u == a[1]
            password_ok == a[2]
        IN
        /\ session_state' = login(session_state, config_file, u, password_ok)
        /\ auth_call' = [fn |-> "login", username |-> u,
                         ok |-> is_authenticated(session_state'),
                         raised |-> ~has_credentials(session_state')]
    /\ export_page' = NoView
    /\ UNCHANGED config_file
    /\ NoPages

\* a logout that leaves authentication_status in the session
logout_user_keeping_status(ss, file, lib) ==
    get_auth_config([ss EXCEPT !.username = lib, !.name = lib], file)

\* logout_user(): delete the login keys, build the authenticator
logout_user(ss, file, lib) ==
    LET cleared == [ss EXCEPT !.authentication_status = Absent,
                              !.username = Absent,
                              !.name = Absent]
        stored == get_auth_config(cleared, file)
    IN  IF ~has_credentials(stored) THEN stored    \* except: pass
        ELSE [stored EXCEPT !.authentication_status = lib,
                            !.username = lib,
                            !.name = lib]

LogoutUser ==
    /\ \E lib \in LibraryDefaults :
        session_state' = logout_user(session_state, config_file, lib)
    /\ auth_call' = [fn |-> "logout_user", username |-> session_state.username,
                     ok |-> TRUE, raised |-> FALSE]
    /\ export_page' = NoView
    /\ UNCHANGED config_file
    /\ NoPages

\* the outcome of a call: the session after it, the flag it returned (or
\* that it raised) and its message
Outcome(ss, ok, raised, message) ==
    [session |-> ss, ok |-> ok, raised |-> raised, message |-> message]

Emails == {"new@example.com", "new.example.com"}

\* '@' in email
has_at(email) == email # "new.example.com"

Passwords == {"secret"}

\* bcrypt.hashpw(password.encode('utf-8'), bcrypt.gensalt()).decode('utf-8')
hashpw(password) == [kind |-> "bcrypt", of |-> password]

\* the subscription argument was left out
NotGiven == "not given"

\* an entry that keeps the password as it was typed
new_entry_plaintext(email, password, subscription) ==
    [email |-> email, first_name |-> "New", last_name |-> "User",
     password |-> Plain(password),
     subscription |-> IF subscription = NotGiven THEN "free" ELSE subscription,
     failed_login_attempts |-> 0, logged_in |-> FALSE, created_at |-> "now"]

\* the entry add_user writes
new_entry(email, password, subscription) ==
    [email |-> email, first_name |-> "New", last_name |-> "User",
     password |-> hashpw(password),
     subscription |-> IF subscription = NotGiven THEN "free" ELSE subscription,
     failed_login_attempts |-> 0, logged_in |-> FALSE, created_at |-> "now"]

\* an add_user that writes the entry first and validates afterwards
add_user_writing_first(ss, file, username, email, password, hashable, subscription) ==
    LET stored == get_auth_config(ss, file)
        written == IF has_credentials(stored)
                   THEN [stored EXCEPT !.auth_config =
                            (username :> new_entry(email, password, subscription)) @@ @]
                   ELSE stored
    IN  IF ~has_credentials(stored)
        THEN Outcome(stored, FALSE, TRUE, "TypeError")
        ELSE IF username \in DOMAIN stored.auth_config
        THEN Outcome(written, FALSE, FALSE, "Username already exists")
        ELSE IF ~has_at(email)
        THEN Outcome(written, FALSE, FALSE, "Invalid email format")
        ELSE IF ~hashable
        THEN Outcome(written, FALSE, FALSE, "Password hashing error")
        ELSE Outcome(written, TRUE, FALSE, "User created successfully")

\* add_user(username, email, first_name, last_name, password, subscription);
\* hashable: bcrypt.hashpw does not raise on the password
add_user(ss, file, username, email, password, hashable, subscription) ==
    LET stored == get_auth_config(ss, file)
    IN  IF ~has_credentials(stored)
        THEN Outcome(stored, FALSE, TRUE, "TypeError")
        ELSE IF username \in DOMAIN stored.auth_config
        THEN Outcome(stored, FALSE, FALSE, "Username already exists")
        ELSE IF ~has_at(email)
        THEN Outcome(stored, FALSE, FALSE, "Invalid email format")
        ELSE IF ~hashable
        THEN Outcome(stored, FALSE, FALSE, "Password hashing error")
        ELSE Outcome([stored EXCEPT !.auth_config =
                         (username :> new_entry(email, password, subscription)) @@ @],
                     TRUE, FALSE, "User created successfully")

\* the email, whether the password can be hashed, and the subscription of
\* an add_user call: every subscription with acceptable values, and each
\* unacceptable value once
AddUserArguments ==
    {<<e, h, l>> \in Emails \X BOOLEAN \X (NewLevels \cup {NotGiven}) :
        (has_at(e) /\ h) \/ (has_at(e) # h /\ l = NotGiven)}

AddUser ==
    /\ \E u \in NewNames, password \in Passwords, a \in AddUserArguments :
        LET email == a[1]
            hashable == a[2]
            l == a[3]
            r == add_user(session_state, config_file, u, email, password, hashable, l)
        IN  /\ session_state' = r.session
            /\ auth_call' = [fn |-> "add_user", username |-> u, ok |-> r.ok,
                             raised |-> r.raised, message |-> r.message,
                             email |-> email, password |-> password, level |-> l]
    /\ export_page' = NoView
    /\ UNCHANGED config_file
    /\ NoPages

\* an update that writes a new entry holding the subscription alone
update_user_subscription_replacing_entry(ss, file, username, new_subscription) ==
    LET stored == get_auth_config(ss, file)
    IN  IF ~has_credentials(stored)
        THEN Outcome(stored, FALSE, TRUE, "TypeError")
        ELSE IF username \notin DOMAIN stored.auth_config
        THEN Outcome(stored, FALSE, FALSE, "User not found")
        ELSE Outcome([stored EXCEPT !.auth_config[username] =
                         [subscription |-> new_subscription]],
                     TRUE, FALSE, "Subscription updated")

\* update_user_subscription(username, new_subscription)
update_user_subscription(ss, file, username, new_subscription) ==
    LET stored == get_auth_config(ss, file)
    IN  IF ~has_credentials(stored)
        THEN Outcome(stored, FALSE, TRUE, "TypeError")
        ELSE IF username \notin DOMAIN stored.auth_config
        THEN Outcome(stored, FALSE, FALSE, "User not found")
        ELSE Outcome([stored EXCEPT !.auth_config[username] =
                         ("subscription" :> new_subscription) @@ @],
                     TRUE, FALSE, "Subscription updated")

\* the username and the level of an update_user_subscription call; the
\* username no config holds is tried with one level
UpdateArguments ==
    {<<u, l>> \in UpdateNames \X NewLevels : u # "ghost" \/ l = "premium"}

UpdateUserSubscription ==
    /\ \E a \in UpdateArguments :
        LET u == a[1]
            l == a[2]
            r == update_user_subscription(session_state, config_file, u, l)
        IN  /\ session_state' = r.session
            /\ auth_call' = [fn |-> "update_user_subscription", username |-> u,
                             ok |-> r.ok, raised |-> r.raised, message |-> r.message,
                             level |-> l]
    /\ export_page' = NoView
    /\ UNCHANGED config_file
    /\ NoPages

CallGetAuthConfig ==
    /\ session_state' = get_auth_config(session_state, config_file)
    /\ auth_call' = [fn |-> "get_auth_config", username |-> Absent, ok |-> TRUE,
                     raised |-> FALSE,
                     result |-> session_state'.auth_config,
                     keys |-> session_state'.config_keys]
    /\ export_page' = NoView
    /\ UNCHANGED config_file
    /\ NoPages

\* no call into utils.auth has been made yet
NoCallYet == session_state = NewSessionState /\ auth_call = NoAuthCall

CallCheckFeatureAccess ==
    /\ NoCallYet
    /\ \E f \in FeatureNames, l \in Levels :
        auth_call' = [fn |-> "check_feature_access", feature |-> f, level |-> l,
                      result |-> check_feature_access(f, l)]
    /\ UNCHANGED <<session_state, config_file, export_page>>
    /\ NoPages

CallGetSubscriptionFeatures ==
    /\ NoCallYet
    /\ \E l \in Levels :
        auth_call' = [fn |-> "get_subscription_features", level |-> l,
                      result |-> get_subscription_features(l)]
    /\ UNCHANGED <<session_state, config_file, export_page>>
    /\ NoPages

\* render_authenticated_homepage: the quick action offered is Data Export
dash_export(user) == user.subscription = "premium"

\* no API key is on the page
NoApiKey == [prefix |-> "none"]

ExportTabs == {"Price Data", "Technical Data", "Network Data", "API Access"}

\* what a function of the page has put on the page, whether it raised, and
\* the API key it showed
Rendered(sections, controls, raised, api_key) ==
    [sections |-> sections, controls |-> controls, raised |-> raised,
     api_key |-> api_key]

\* render_price_data_export(): the preview and the export buttons are
\* shown for a frame that is not empty
render_price_data_export(has_data) ==
    IF has_data
    THEN Rendered(<<"price_options", "price_preview">>, {"download_button"}, "none", NoApiKey)
    ELSE Rendered(<<"price_options">>, {}, "none", NoApiKey)

render_technical_data_export ==
    Rendered(<<"technical_options", "technical_preview">>, {"export_button"}, "none", NoApiKey)

render_network_data_export ==
    Rendered(<<"network_options", "network_preview">>, {"export_button"}, "none", NoApiKey)

\* the names a function of the module can read: its own parameters and the
\* names bound at module level; main() binds user as a local
ModuleNames == {"st", "sac", "pd", "json", "datetime", "timedelta", "io"}

\* "kas_pro_" + username + "_" + the character codes of username[:3]
api_key_of(username) ==
    [prefix |-> "kas_pro_", username |-> username, codes_of_first_3 |-> username]

\* render_api_access_tab(): no parameter; it reads user['username'] after
\* the subheader
render_api_access_tab(user) ==
    IF "user" \in ModuleNames
    THEN Rendered(<<"api_key", "api_documentation", "api_usage", "api_example">>,
                  {"regenerate_api_key"}, "none", api_key_of(user.username))
    ELSE Rendered(<<>>, {}, "NameError", NoApiKey)

render_export_tab(user, tab, has_data) ==
    CASE tab = "Price Data" -> render_price_data_export(has_data)
      [] tab = "Technical Data" -> render_technical_data_export
      [] tab = "Network Data" -> render_network_data_export
      [] OTHER -> render_api_access_tab(user)

\* render_premium_export_page(user): the header, the selected tab, then
\* the export history and the footer; an exception ends the script run
render_premium_export_page(user, tab, has_data) ==
    LET shown_tab == render_export_tab(user, tab, has_data)
    IN  [tab |-> tab,
         sections |-> <<"header", "export_tabs">> \o shown_tab.sections
                      \o (IF shown_tab.raised = "none"
                          THEN <<"export_history", "footer">>
                          ELSE <<>>),
         controls |-> {"export_tabs"} \cup shown_tab.controls,
         raised |-> shown_tab.raised,
         api_key |-> shown_tab.api_key]

\* render_premium_required_page(user); the sample preview is shown for a
\* frame that is not empty
render_premium_required_page(has_data) ==
    [tab |-> "none",
     sections |-> <<"header", "premium_features">>
                  \o (IF has_data THEN <<"sample_preview">> ELSE <<>>)
                  \o <<"upgrade_prompt", "footer">>,
     controls |-> {"upgrade_prompt"},
     raised |-> "none",
     api_key |-> NoApiKey]

\* main() of the Data Export page: the sidebar, then one of the two pages
data_export_main(user, tab, has_data) ==
    LET premium == ~(user.username = "public" \/ user.subscription # "premium")
        body == IF premium
                THEN render_premium_export_page(user, tab, has_data)
                ELSE render_premium_required_page(has_data)
    IN  [page |-> IF premium THEN "premium_export" ELSE "premium_required",
         tab |-> body.tab,
         sections |-> body.sections,
         controls |-> body.controls,
         raised |-> body.raised,
         api_key |-> body.api_key,
         nav_export |-> check_feature_access("data_export", user.subscription),
         logout_button |-> user.username # "public",
         user |-> user]

\* the tab selected and whether fetch_kaspa_price_data returns samples; the
\* empty frame is drawn with the first tab
ExportRuns ==
    {<<tab, has_data>> \in ExportTabs \X BOOLEAN : has_data \/ tab = "Price Data"}

RenderDataExport ==
    /\ \E run \in ExportRuns :
        LET tab == run[1]
            has_data == run[2]
        IN
        export_page' =
          IF get_current_user_raises(session_state, config_file)
          THEN [page |-> "exception"]
          ELSE data_export_main(get_current_user(session_state, config_file),
                                tab, has_data)
    /\ session_state' = after_get_current_user(session_state, config_file)
    /\ UNCHANGED <<config_file, auth_call>>
    /\ NoPages

AuthInit ==
    /\ PagesIdle
    /\ NoCallers
    /\ session_state = NewSessionState
    /\ config_file \in ConfigFiles
    /\ export_page = NoView
    /\ auth_call = NoAuthCall

AuthNext ==
    \/ NewSession
    \/ EditConfigFile
    \/ Login
    \/ LogoutUser
    \/ AddUser
    \/ UpdateUserSubscription
    \/ CallGetAuthConfig
    \/ CallCheckFeatureAccess
    \/ CallGetSubscriptionFeatures
    \/ RenderDataExport

AuthSpec == AuthInit /\ [][AuthNext]_vars

(* ------------------- the views of the last D days --------------------- *)
\* DataFrame.tail(n): the last n rows, every row of a shorter frame
tail(d, n) == IF n >= Len(d) THEN d ELSE SubSeq(d, Len(d) - n + 1, Len(d))

\* the choices of the 'Time Range' selectbox
TimeRanges == {"7D", "30D", "3M", "6M", "1Y", "2Y", "All"}

\* the days a choice stands for
RangeDays ==
    [time_range \in TimeRanges \ {"All"} |->
        CASE time_range = "7D" -> 7
          [] time_range = "30D" -> 30
          [] time_range = "3M" -> 90
          [] time_range = "6M" -> 180
          [] time_range = "1Y" -> 365
          [] time_range = "2Y" -> 730]

\* `# Filter data based on time range` of render_main_chart_tab
filter_time_range(d, time_range) ==
    IF time_range = "7D" THEN tail(d, 7 * ChartsRowsPerDay)
    ELSE IF time_range = "30D" THEN tail(d, 30 * ChartsRowsPerDay)
    ELSE IF time_range = "3M" THEN tail(d, 90 * ChartsRowsPerDay)
    ELSE IF time_range = "6M" THEN tail(d, 180 * ChartsRowsPerDay)
    ELSE IF time_range = "1Y" THEN tail(d, 365 * ChartsRowsPerDay)
    ELSE IF time_range = "2Y" THEN tail(d, 730 * ChartsRowsPerDay)
    ELSE d

\* render_public_homepage: 'Kaspa Price - Last 30 Days (Free Access)'
public_preview(d) == tail(d, PreviewRows)

\* render_authenticated_homepage: `# 1 year for all users`
year_chart(d) == tail(d, YearRows)

\* the homepage charts: the days each is labelled with, and its rows
HomeCharts == {"public_home", "user_home"}
HomeDays == [h \in HomeCharts |-> IF h = "public_home" THEN 30 ELSE 365]
home_chart(d, h) == IF h = "public_home" THEN public_preview(d) ELSE year_chart(d)

\* the samples per day of a fetch of the Price Series Provider: daily or
\* hourly
Cadences == {1, HoursPerDay}

\* the lengths where a window of D days starts to cut a series, and the
\* lengths next to them
WindowLengths == {days * c : days \in {RangeDays[t] : t \in DOMAIN RangeDays}, c \in Cadences}
FrameLengths ==
    {0} \cup {n + k : n \in WindowLengths, k \in (0 - MaxMargin)..MaxMargin}

\* the frame of a fetch: the hour of each of its samples, oldest first
Frame(len, c) == [i \in 1..len |-> i * (HoursPerDay \div c)]

\* fetch_kaspa_price_data(days) has returned a frame of that cadence
Fetched(args, c) ==
    [fn |-> "fetch_kaspa_price_data", args |-> args, samples_per_day |-> c]

\* a chart of the last `days` days (none for 'All') over the rows chart_data
Chart(label, days, chart_data) ==
    [label |-> label, days |-> days, chart_data |-> chart_data]

AllDays == 0

\* render_advanced_charts: the fetch of two years, then the 'Time Range'
\* filter of render_main_chart_tab.  The overlays drawn over chart_data are
\* those of RenderChartTab.
SelectTimeRange ==
    /\ FirstRun
    /\ \E len \in FrameLengths, c \in Cadences, time_range \in TimeRanges :
        LET d == Frame(len, c)
        IN  /\ df' = d
            /\ call' = Fetched(<<365 * 2>>, c)
            /\ IF df_empty(d)
               THEN /\ page' = "error"    \* st.error("Unable to load price data")
                    /\ shown' = NoShown
               ELSE /\ page' = "chart"
                    /\ shown' = Chart(time_range,
                                      IF time_range = "All" THEN AllDays
                                      ELSE RangeDays[time_range],
                                      filter_time_range(d, time_range))
    /\ traces' = NoTraces
    /\ metrics' = {}
    /\ previous' = previous
    /\ UNCHANGED <<engineVars, sessionVars>>

\* the chart of a homepage: `if not df.empty:` ... df.tail(...)
RenderHomeChart(h) ==
    /\ FirstRun
    /\ \E len \in FrameLengths, c \in Cadences :
        LET d == Frame(len, c)
        IN  /\ df' = d
            /\ call' = Fetched(<<>>, c)
            /\ shown' = IF df_empty(d) THEN NoShown
                        ELSE Chart(h, HomeDays[h], home_chart(d, h))
    /\ page' = h
    /\ traces' = NoTraces
    /\ metrics' = {}
    /\ previous' = previous
    /\ UNCHANGED <<engineVars, sessionVars>>

RenderPublicPreview == RenderHomeChart("public_home")

RenderYearChart == RenderHomeChart("user_home")

ViewNext ==
    \/ Rerun
    \/ SelectTimeRange
    \/ RenderPublicPreview
    \/ RenderYearChart

ViewSpec == Init /\ [][ViewNext]_vars

(* ======================= properties of the model ====================== *)

WindowMin(s, lo, hi) == CHOOSE v \in {s[i] : i \in lo..hi} : \A i \in lo..hi : v <= s[i]

WindowMax(s, lo, hi) == CHOOSE v \in {s[i] : i \in lo..hi} : \A i \in lo..hi : v >= s[i]

\* number of undefined entries before the first defined one
LeadingUndefined(q) ==
    Cardinality({i \in 1..Len(q) : \A j \in 1..i : ~IsDefined(q[j])})

Drawn(name) == page = "chart" /\ name \in DOMAIN traces

Called(fn) == call.fn = fn /\ call.raised = "none"

\* <<price series, window, moving average>> of every simple moving average
\* the state holds
SmaObserved ==
    {<<df, SMA20Window, traces[n]>> : n \in {m \in {"SMA 20"} : Drawn(m)}}
    \cup {<<df, SMA50Window, traces[n]>> : n \in {m \in {"SMA 50"} : Drawn(m)}}
    \cup {<<call.series, call.args[1], call.out>> :
            n \in {m \in {"simple_moving_average"} : Called(m)}}

\* <<price series, span, moving average>> of the EMA overlays of the chart
EmaDrawn ==
    {<<df, EMA12Span, traces[n]>> : n \in {m \in {"EMA 12"} : Drawn(m)}}
    \cup {<<df, EMA26Span, traces[n]>> : n \in {m \in {"EMA 26"} : Drawn(m)}}

\* ... and of the engine's exponential_moving_average
EmaCalled ==
    {<<call.series, call.args[1], call.out>> :
        n \in {m \in {"exponential_moving_average"} : Called(m)}}

\* C1: for a window w <= L the simple moving average of a series of L >= 1
\* samples has L entries, the first w-1 undefined and the entries w..L
\* defined; with L = w only the last entry is defined.
C1_SmaShape ==
    \A o \in SmaObserved :
        LET s == o[1]
            w == o[2]
            out == o[3]
        IN  (Len(s) >= 1 /\ w <= Len(s)) =>
                /\ Len(out) = Len(s)
                /\ \A i \in 1..Len(s) : IsDefined(out[i]) <=> i >= w
                /\ (Len(s) = w) =>
                      /\ Cardinality({i \in 1..Len(s) : IsDefined(out[i])}) = 1
                      /\ IsDefined(out[Len(s)])

C1_Witness ==
    /\ Drawn("SMA 20")
    /\ Len(df) = SMA20Window
    /\ IsDefined(traces["SMA 20"][SMA20Window])
    /\ ~IsDefined(traces["SMA 20"][SMA20Window - 1])

\* C2: every defined entry i of a simple moving average is the arithmetic
\* mean of the w samples ending at i, and lies between their minimum and
\* maximum.
C2_SmaMean ==
    \A o \in SmaObserved :
        LET s == o[1]
            w == o[2]
            out == o[3]
        IN  \A i \in 1..Len(out) :
                IsDefined(out[i]) =>
                    /\ i >= w
                    /\ out[i][1] * w = SumRange(s, i - w + 1, i) * out[i][2]
                    /\ RLeq(R(WindowMin(s, i - w + 1, i)), out[i])
                    /\ RLeq(out[i], R(WindowMax(s, i - w + 1, i)))

C2_Witness ==
    /\ Drawn("SMA 20")
    /\ \E i \in 1..Len(df) :
        /\ IsDefined(traces["SMA 20"][i])
        /\ ~RLeq(traces["SMA 20"][i], R(WindowMin(df, i - SMA20Window + 1, i)))
        /\ ~RLeq(R(WindowMax(df, i - SMA20Window + 1, i)), traces["SMA 20"][i])

\* every indicator series the state holds, with its source price series
IndicatorSeries ==
    {<<df, traces[n]>> : n \in {m \in DOMAIN traces : page = "chart"}}
    \cup {<<call.series, call.out>> :
            n \in {m \in {"simple_moving_average", "exponential_moving_average",
                          "rsi"} : Called(m)}}
    \cup {<<call.series, call.out[k]>> :
            k \in {j \in {"middle", "upper", "lower"} : Called("bollinger_bands")}}
    \cup {<<call.series, call.out[k]>> :
            k \in {j \in {"macd_line", "signal", "histogram"} : Called("macd")}}
    \cup {<<call.series, call.out[k]>> :
            k \in {j \in {"rsi", "macd_line", "macd_signal", "macd_histogram",
                          "bb_upper", "bb_middle", "bb_lower"} :
                     Called("compute_all") \/ Called("get_technical_indicators")}}

\* C3 as stated: every indicator series is as long as its price series, and
\* simple and exponential moving averages alike start with window-1
\* undefined entries (all entries, on a series shorter than that).
C3_UndefinedPrefixBoth ==
    /\ \A o \in IndicatorSeries : Len(o[2]) = Len(o[1])
    /\ \A o \in SmaObserved \cup EmaDrawn \cup EmaCalled :
        LeadingUndefined(o[3]) = Min2(o[2] - 1, Len(o[1]))

\* C3, amended: every indicator series is as long as its price series; a
\* simple moving average starts with window-1 undefined entries (all
\* entries, on a series shorter than that), an exponential moving average
\* has no undefined entry at all.
C3_UndefinedPrefix ==
    /\ \A o \in IndicatorSeries : Len(o[2]) = Len(o[1])
    /\ \A o \in SmaObserved : LeadingUndefined(o[3]) = Min2(o[2] - 1, Len(o[1]))
    /\ \A o \in EmaDrawn \cup EmaCalled :
        \A i \in 1..Len(o[3]) : IsDefined(o[3][i])

C3_Witness ==
    /\ Drawn("EMA 12")
    /\ Drawn("SMA 20")
    /\ Len(df) >= 2
    /\ LeadingUndefined(traces["EMA 12"]) = 0
    /\ LeadingUndefined(traces["SMA 20"]) = Len(df)

\* C4 as stated: an exponential moving average starts at the first sample
\* and continues as alpha*x[i] + (1-alpha)*ema[i-1] with alpha =
\* 2/(span+1), for the engine's function and for the EMA 12 / EMA 26
\* overlays of the chart.
C4_EmaRecurrence ==
    \A o \in EmaDrawn \cup EmaCalled :
        LET s == o[1]
            span == o[2]
            out == o[3]
        IN  \A t \in 1..Len(s) :
                out[t] = IF t = 1 THEN R(s[1])
                         ELSE RAdd(RMul(Norm(2, span + 1), R(s[t])),
                                   RMul(Norm(span - 1, span + 1), out[t - 1]))

\* sample variance of the w samples ending at i
SampleVariance(s, w, i) ==
    LET sm == SumRange(s, i - w + 1, i)
        sq == SumSqRange(s, i - w + 1, i)
    IN  Norm(w * sq - sm * sm, w * (w - 1))

\* C5: the three Bollinger bands of the chart are defined at the same
\* indices (from the 20th sample on); where defined, lower <= middle <=
\* upper, middle is the mean of the 20 trailing samples and upper / lower
\* lie 2 standard deviations (of those samples, to 1/StdScale) above / below.
C5_BollingerOrder ==
    Drawn("BB Upper") =>
        \A i \in 1..Len(df) :
            LET up == traces["BB Upper"][i]
                mid == traces["BB Middle"][i]
                low == traces["BB Lower"][i]
                sd == RDiv(RSub(up, mid), R(BBNumStd))
                var == SampleVariance(df, BBWindow, i)
            IN  /\ IsDefined(up) <=> i >= BBWindow
                /\ IsDefined(mid) <=> i >= BBWindow
                /\ IsDefined(low) <=> i >= BBWindow
                /\ i >= BBWindow =>
                    /\ RLeq(low, mid)
                    /\ RLeq(mid, up)
                    /\ mid = Norm(SumRange(df, i - BBWindow + 1, i), BBWindow)
                    /\ RSub(up, mid) = RSub(mid, low)
                    /\ RLeq(RMul(sd, sd), var)
                    /\ ~RLeq(RMul(RAdd(sd, Norm(1, StdScale)),
                                  RAdd(sd, Norm(1, StdScale))), var)

C5_Witness ==
    /\ Drawn("BB Upper")
    /\ \E i \in 1..Len(df) :
        /\ IsDefined(traces["BB Middle"][i])
        /\ ~RLeq(traces["BB Upper"][i], traces["BB Middle"][i])
        /\ ~RLeq(traces["BB Middle"][i], traces["BB Lower"][i])

\* <<price series, period, rsi>> of every RSI series the state holds
RsiObserved ==
    {<<call.series, call.args[1], call.out>> : n \in {m \in {"rsi"} : Called(m)}}
    \cup {<<call.series, RSIPeriod, call.out["rsi"]>> :
            n \in {m \in {"compute_all", "get_technical_indicators"} : Called(m)}}

\* C6: the entries of rsi(series, period) at the first `period` indices are
\* undefined, and every defined entry lies in [0, 100].
C6_RsiRange ==
    \A o \in RsiObserved :
        LET p == o[2]
            out == o[3]
        IN  \A i \in 1..Len(out) :
                /\ i <= p => ~IsDefined(out[i])
                /\ IsDefined(out[i]) => RLeq(R(0), out[i]) /\ RLeq(out[i], R(100))

C6_Witness ==
    /\ Called("rsi")
    /\ \E i \in 1..Len(call.out) :
        /\ IsDefined(call.out[i])
        /\ ~RLeq(call.out[i], R(0))
        /\ ~RLeq(R(100), call.out[i])

StrictlyIncreasing(s) == \A i \in 2..Len(s) : s[i - 1] < s[i]

\* C7: wherever the Wilder-smoothed average loss is exactly 0 the RSI is
\* exactly 100; on a strictly increasing series every entry after the first
\* `period` ones is defined and equals 100 (the series 1..30 with period 14
\* has RSI 100 at its last index).
C7_RsiNoLoss ==
    \A o \in RsiObserved :
        LET s == o[1]
            p == o[2]
            out == o[3]
        IN  /\ \A i \in (p + 1)..Len(s) :
                AvgLoss(s, p, i)[1] = 0 => out[i] = R(100)
            /\ StrictlyIncreasing(s) =>
                \A i \in (p + 1)..Len(s) : out[i] = R(100)
            /\ (s = Ramp(RampLen) /\ p = RSIPeriod) => out[RampLen] = R(100)

C7_Witness ==
    /\ Called("rsi")
    /\ call.series = Ramp(RampLen)
    /\ call.args = <<RSIPeriod>>
    /\ call.out[RampLen] = R(100)

\* <<price series, <<fast, slow, signal>>, <<macd_line, signal, histogram>>>>
MacdObserved ==
    {<<call.series, call.args,
       <<call.out["macd_line"], call.out["signal"], call.out["histogram"]>>>> :
        n \in {m \in {"macd"} : Called(m)}}
    \cup {<<call.series, <<MACDFast, MACDSlow, MACDSignal>>,
            <<call.out["macd_line"], call.out["macd_signal"], call.out["macd_histogram"]>>>> :
            n \in {m \in {"compute_all", "get_technical_indicators"} : Called(m)}}

\* C8: macd returns three series as long as its input, with macd_line =
\* EMA(fast) - EMA(slow), signal = EMA(macd_line, span) and, at every
\* index, histogram = macd_line - signal exactly.
C8_MacdHistogram ==
    \A o \in MacdObserved :
        LET s == o[1]
            line == o[3][1]
            sig == o[3][2]
            hist == o[3][3]
            ef == exponential_moving_average(Rationals(s), o[2][1])
            es == exponential_moving_average(Rationals(s), o[2][2])
        IN  /\ Len(line) = Len(s) /\ Len(sig) = Len(s) /\ Len(hist) = Len(s)
            /\ sig = exponential_moving_average(line, o[2][3])
            /\ \A i \in 1..Len(s) :
                /\ IsDefined(hist[i])
                /\ line[i] = RSub(ef[i], es[i])
                /\ hist[i] = RSub(line[i], sig[i])
                /\ RAdd(hist[i], sig[i]) = line[i]

C8_Witness ==
    /\ Called("macd")
    /\ \E i \in 1..Len(call.series) :
        /\ call.out["histogram"][i][1] # 0
        /\ call.out["signal"][i][1] # 0

\* C9: an engine call on an empty series raises EmptySeriesError and
\* returns nothing; the charts page, given an empty frame, reports it and
\* draws no trace, shows no metric and calls no indicator function.
C9_EmptySeries ==
    /\ call # NoCall =>
        /\ Len(call.series) = 0 <=> call.raised = "EmptySeriesError"
        /\ call.raised = "EmptySeriesError" => call.out = NoOutput
    /\ page # "exception"
    /\ page \in {"chart", "indicators", "error", "exception"} =>
        (Len(df) = 0 <=> page = "error")
    /\ page = "error" =>
        traces = NoTraces /\ metrics = {} /\ shown = NoShown /\ call = NoCall

C9_Witness ==
    /\ page = "error"
    /\ Len(df) = 0
    /\ call = NoCall

\* C10 as stated: the snapshot holds the most recent defined value of each
\* series, and the indicators tab shows the metric of a snapshot key
\* exactly when its value is defined, a value of 0 included.
C10_ZeroIsShown ==
    page = "indicators" =>
        /\ call.out["current_values"]["rsi"] = last_defined(call.out["rsi"])
        /\ call.out["current_values"]["macd"] = last_defined(call.out["macd_line"])
        /\ \A k \in SnapshotKeys :
            k \in metrics <=> IsDefined(call.out["current_values"][k])

\* the lookback of the change a page shows as the delta of its price box
DeltaLookback ==
    IF page = "public_home" THEN Lookback7d ELSE Lookback24h

StatsReturned == Called("get_market_stats") /\ call.raised = "none"

\* C11 as stated: with fewer samples than the lookback of price_change_24h
\* or price_change_7d, the statistic is undefined (a not-a-number value or
\* no value at all, never 0), and the delta a page shows for it differs
\* from the delta it shows for a change of exactly 0%.
C11_ShortHistoryIsNotZero ==
    /\ StatsReturned =>
        \A c \in {<<"price_change_24h", Lookback24h>>, <<"price_change_7d", Lookback7d>>} :
            Len(call.series) < c[2] =>
                \/ c[1] \notin DOMAIN call.out
                \/ ~IsDefined(call.out[c[1]])
    /\ (page \in {"public_home", "user_home", "chart"} /\ Len(df) < DeltaLookback) =>
        shown["delta"] # format_signed_2f(R(0))

\* C12: on a non-empty frame get_market_stats returns the last close as
\* current_price, the maximum high, the minimum low and the volume sum of
\* the last Lookback24h samples, and low_24h <= high_24h.
C12_MarketStats ==
    StatsReturned =>
        LET f == call.series
            n == Len(f)
            lo == IF n > Lookback24h THEN n - Lookback24h + 1 ELSE 1
            out == call.out
        IN  /\ out["current_price"] = R(f[n].close)
            /\ \E i \in lo..n : out["high_24h"] = R(f[i].high)
            /\ \A i \in lo..n : RLeq(R(f[i].high), out["high_24h"])
            /\ \E i \in lo..n : out["low_24h"] = R(f[i].low)
            /\ \A i \in lo..n : RLeq(out["low_24h"], R(f[i].low))
            /\ out["volume_24h"] = R(SumRange([i \in 1..n |-> f[i].volume], lo, n))
            /\ RLeq(out["low_24h"], out["high_24h"])

\* a frame longer than the window whose first sample, outside the window,
\* has the highest high and the largest volume
C12_Witness ==
    /\ StatsReturned
    /\ Len(call.series) > Lookback24h
    /\ \A i \in 2..Len(call.series) : call.series[i].high < call.series[1].high
    /\ call.out["low_24h"] # call.out["high_24h"]
    /\ call.out["current_price"] # call.out["high_24h"]

\* <<price series, bb_upper, bb_lower, snapshot bb_position>> of every
\* snapshot the state holds
BbPositionObserved ==
    {<<call.series, call.out["bb_upper"], call.out["bb_lower"],
       call.out["bb_position"]>> : n \in {m \in {"snapshot_bb_position"} : Called(m)}}
    \cup {<<call.series, call.out["bb_upper"], call.out["bb_lower"],
             call.out["current_values"]["bb_position"]>> :
            n \in {m \in {"compute_all", "get_technical_indicators"} : Called(m)}}

\* C13: the snapshot's bb_position is (current_price - lower)/(upper -
\* lower) of the latest defined bands, and it is undefined when a band is
\* undefined or the band width is zero.
C13_BbPosition ==
    \A o \in BbPositionObserved :
        LET price == R(o[1][Len(o[1])])
            upper == last_defined(o[2])
            lower == last_defined(o[3])
        IN  IF IsDefined(upper) /\ IsDefined(lower) /\ upper # lower
            THEN /\ IsDefined(o[4])
                 /\ RMul(o[4], RSub(upper, lower)) = RSub(price, lower)
            ELSE ~IsDefined(o[4])

\* bands of non-zero width, the last price strictly inside them
C13_Witness ==
    /\ Called("snapshot_bb_position")
    /\ IsDefined(call.out["bb_position"])
    /\ ~RLeq(call.out["bb_position"], R(0))
    /\ ~RLeq(R(1), call.out["bb_position"])

PremiumSession ==
    /\ is_authenticated(session_state)
    /\ subscription_of(session_state.auth_config, session_state.username) = "premium"

ExportRendered == export_page # NoView

\* C17: whenever the Data Export page has rendered, it shows the premium
\* export view exactly when the session is logged in and the current auth
\* config gives the logged-in user the subscription 'premium'; otherwise it
\* shows the premium-required page without any export control.
\* Violated: a logged-in premium user whose username is 'public' is shown
\* the premium-required page.
C17_ExportIffPremium ==
    ExportRendered =>
        /\ (export_page.page = "premium_export") <=> PremiumSession
        /\ export_page.page # "premium_export" =>
              /\ export_page.page = "premium_required"
              /\ export_page.controls \cap {"export_tabs", "download_button", "export_button"} = {}

\* what does hold: the rule for every username but 'public'
ExportIffPremiumUnlessNamedPublic ==
    ExportRendered =>
        /\ (export_page.page = "premium_export") <=>
              (PremiumSession /\ session_state.username # "public")
        /\ export_page.page # "premium_export" =>
              /\ export_page.page = "premium_required"
              /\ export_page.controls \cap {"export_tabs", "download_button", "export_button"} = {}

\* a subscription change has been rendered: the premium view after an upgrade
UpgradeRendered ==
    /\ ExportRendered
    /\ export_page.page = "premium_export"
    /\ auth_call.fn = "update_user_subscription"
    /\ auth_call.ok
    /\ auth_call.username = session_state.username


(* ---- C18: the two feature tables agree ---- *)
PremiumFeatures == {"data_export", "api_access"}

\* C18: for every subscription level, one of public / free / premium or
\* not, check_feature_access('data_export', s), check_feature_access(
\* 'api_access', s) and the entries 'export' and 'api' of
\* get_subscription_features(s) are the same truth value, and that value is
\* true exactly when s = 'premium'.
C18_FeatureTablesAgree ==
    /\ (auth_call.fn = "check_feature_access" /\ auth_call.feature \in PremiumFeatures) =>
        /\ auth_call.result <=> auth_call.level = "premium"
        /\ auth_call.result = get_subscription_features(auth_call.level).export
        /\ auth_call.result = get_subscription_features(auth_call.level).api
    /\ auth_call.fn = "get_subscription_features" =>
        /\ auth_call.result.export <=> auth_call.level = "premium"
        /\ auth_call.result.api = auth_call.result.export
        /\ \A f \in PremiumFeatures :
            check_feature_access(f, auth_call.level) = auth_call.result.export

\* the features of a level that is not in the table have been asked for
C18_Witness ==
    /\ auth_call.fn = "get_subscription_features"
    /\ auth_call.level \notin DOMAIN features
    /\ ~auth_call.result.export
    /\ ~check_feature_access("data_export", auth_call.level)


(* ---- C19: logout ---- *)
\* what every page sees of a session that is not logged in
LoggedOut ==
    /\ ~is_authenticated(session_state)
    /\ get_current_user(session_state, config_file) = PublicUser

\* what the pages read from the session
Observed ==
    <<is_authenticated(session_state),
      get_current_user(session_state, config_file),
      session_state.has_auth_config,
      session_state.auth_config>>

\* C19: after logout_user, whatever the session held, is_authenticated() is
\* false and get_current_user() is the public record (username 'public',
\* subscription 'public', name 'Public User'); a session that is not
\* authenticated becomes authenticated only by a successful login; and a
\* logout_user that follows a logout_user changes nothing the pages read.
C19_Logout ==
    [][/\ auth_call'.fn = "logout_user" => LoggedOut'
       /\ (~is_authenticated(session_state) /\ is_authenticated(session_state')) =>
             (auth_call'.fn = "login" /\ auth_call'.ok)
       /\ (auth_call.fn = "logout_user" /\ auth_call'.fn = "logout_user") =>
             Observed' = Observed]_vars

\* a logged-in user has logged out
C19_Witness ==
    /\ auth_call.fn = "logout_user"
    /\ auth_call.username \in LoginNames
    /\ LoggedOut
    /\ session_state.has_auth_config


(* ---- C20: the stored auth config ---- *)
\* the step is a successful call of fn for the user u
Succeeded(fn, u) ==
    /\ auth_call'.fn = fn
    /\ auth_call'.ok
    /\ auth_call'.username = u

\* C20: in a session that holds an auth config, every step of the session
\* keeps it stored: a get_auth_config call returns the config that was
\* stored before the call, whatever the config file holds; no user leaves
\* the config, a user enters it only by add_user and a subscription
\* changes only by update_user_subscription for that user.
C20_StoredConfig ==
    [][(session_state.has_auth_config /\ auth_call'.fn # "new_session") =>
          /\ session_state'.has_auth_config
          /\ auth_call'.fn = "get_auth_config" =>
                auth_call'.result = session_state.auth_config
          /\ \A u \in DOMAIN session_state.auth_config :
                /\ u \in DOMAIN session_state'.auth_config
                /\ \/ session_state'.auth_config[u] = session_state.auth_config[u]
                   \/ Succeeded("update_user_subscription", u)
          /\ \A u \in DOMAIN session_state'.auth_config :
                \/ u \in DOMAIN session_state.auth_config
                \/ Succeeded("add_user", u)]_vars

\* get_auth_config has returned a config changed in the session while the
\* file holds another one
C20_Witness ==
    /\ auth_call.fn = "get_auth_config"
    /\ config_file.state = "readable"
    /\ auth_call.result = session_state.auth_config
    /\ auth_call.result \notin {default_config, edited_config}
    /\ \E u \in DOMAIN auth_call.result : u \notin DOMAIN config_file.config


(* ---- C21, C22: add_user ---- *)
\* the auth config a call finds: the stored one, or the one it loads
ConfigBefore == get_auth_config(session_state, config_file)

\* the latest call is add_user and it returned this flag
AddUserReturned(ok) ==
    /\ auth_call'.fn = "add_user"
    /\ ~auth_call'.raised
    /\ auth_call'.ok = ok

\* C21: an add_user call that returns False (the username exists, the
\* email has no '@', or hashing the password raised) leaves the auth config
\* as the call found it: no user is added and no entry is overwritten.
C21_FailedAddUser ==
    [][AddUserReturned(FALSE) =>
          /\ session_state'.auth_config = ConfigBefore.auth_config
          /\ session_state'.config_keys = ConfigBefore.config_keys]_vars

\* add_user was refused for a username that exists, with another email
\* than the entry holds
C21_Witness ==
    /\ auth_call.fn = "add_user"
    /\ auth_call.message = "Username already exists"
    /\ auth_call.username \in DOMAIN session_state.auth_config
    /\ session_state.auth_config[auth_call.username].email # auth_call.email
    /\ session_state.auth_config[auth_call.username].password.kind = "plain"

\* C22: an add_user call that returns True adds one entry, under the
\* username given, with the subscription given ('free' when none is given),
\* failed_login_attempts 0, logged_in False and a bcrypt hash of the
\* password, never the password itself; every other entry is unchanged.
C22_AddedUser ==
    [][AddUserReturned(TRUE) =>
          LET pre == ConfigBefore.auth_config
              post == session_state'.auth_config
              u == auth_call'.username
          IN  /\ DOMAIN post = DOMAIN pre \cup {u}
              /\ \A v \in DOMAIN pre \ {u} : post[v] = pre[v]
              /\ post[u].subscription =
                    (IF auth_call'.level = NotGiven THEN "free" ELSE auth_call'.level)
              /\ post[u].failed_login_attempts = 0
              /\ post[u].logged_in = FALSE
              /\ post[u].email = auth_call'.email
              /\ post[u].password = hashpw(auth_call'.password)
              /\ post[u].password # Plain(auth_call'.password)]_vars

\* a user was added without a subscription argument
C22_Witness ==
    /\ auth_call.fn = "add_user"
    /\ auth_call.ok
    /\ auth_call.level = NotGiven
    /\ auth_call.username \in DOMAIN session_state.auth_config
    /\ session_state.auth_config[auth_call.username].subscription = "free"
    /\ session_state.auth_config[auth_call.username].password.kind = "bcrypt"


(* ---- C23: update_user_subscription ---- *)
UpdateReturned(ok) ==
    /\ auth_call'.fn = "update_user_subscription"
    /\ ~auth_call'.raised
    /\ auth_call'.ok = ok

\* C23: update_user_subscription for a username the config does not hold
\* returns False with 'User not found' and changes nothing; for a username
\* it holds, it sets the field 'subscription' of that entry to the level
\* given and changes no other field of it and no other entry.
C23_UpdateSubscription ==
    [][LET pre == ConfigBefore.auth_config
           post == session_state'.auth_config
           u == auth_call'.username
       IN  /\ UpdateReturned(FALSE) =>
                /\ auth_call'.message = "User not found"
                /\ u \notin DOMAIN pre
                /\ post = pre
                /\ session_state'.config_keys = ConfigBefore.config_keys
           /\ UpdateReturned(TRUE) =>
                /\ u \in DOMAIN pre
                /\ DOMAIN post = DOMAIN pre
                /\ \A v \in DOMAIN pre \ {u} : post[v] = pre[v]
                /\ post[u].subscription = auth_call'.level
                /\ DOMAIN post[u] = DOMAIN pre[u] \cup {"subscription"}
                /\ \A f \in DOMAIN pre[u] \ {"subscription"} :
                      post[u][f] = pre[u][f]]_vars

\* the subscription of a user has been changed to a level outside the tables
C23_Witness ==
    /\ auth_call.fn = "update_user_subscription"
    /\ auth_call.ok
    /\ auth_call.level = "trial"
    /\ session_state.auth_config[auth_call.username].subscription = "trial"
    /\ "password" \in DOMAIN session_state.auth_config[auth_call.username]


(* ---- C24: the fallback to the default config ---- *)
\* the calls that subscript the config
SubscriptingCalls == {"login", "add_user", "update_user_subscription"}

\* C24: whatever the config file is (missing, unreadable, not YAML, empty
\* or valid), the config get_auth_config stores and returns holds
\* 'credentials', 'cookie' and 'preauthorized', and no call that reads it
\* (get_authenticator at a login, add_user, update_user_subscription,
\* get_current_user of a page) raises.
\* Violated: an empty file is loaded as None, without any exception, and
\* None is stored and returned.
C24_ConfigAlwaysUsable ==
    /\ session_state.has_auth_config => session_state.config_keys = ConfigKeys
    /\ auth_call.fn = "get_auth_config" => auth_call.keys = ConfigKeys
    /\ auth_call.fn \in SubscriptingCalls => ~auth_call.raised
    /\ export_page.page # "exception"

\* what does hold: a stored config without 'credentials' has no users, and
\* every other stored config holds the three keys
StoredConfigIsNoneOrComplete ==
    session_state.has_auth_config =>
        \/ session_state.config_keys = ConfigKeys
        \/ session_state.config_keys = {} /\ session_state.auth_config = NoConfig


(* ---- C25: the public record and the registered accounts ---- *)
\* C25: get_current_user returns the username 'public' exactly when no
\* user is logged in, and the subscription 'public' exactly when no user is
\* logged in; a page that has rendered offers Logout exactly to a
\* logged-in user.
\* Violated: a registered user may be named 'public', and a registered
\* user's subscription may be set to 'public'.
C25_PublicMeansLoggedOut ==
    LET user == get_current_user(session_state, config_file)
    IN  /\ user.username = "public" <=> ~is_authenticated(session_state)
        /\ user.subscription = "public" <=> ~is_authenticated(session_state)
        /\ ExportRendered =>
              (export_page.logout_button <=> is_authenticated(session_state))

\* what does hold: a session that is not logged in gets the public record
LoggedOutIsPublic ==
    ~is_authenticated(session_state) =>
        get_current_user(session_state, config_file) = PublicUser

\* and a logged-in user of another name and subscription is told apart
OtherNamesAreToldApart ==
    LET user == get_current_user(session_state, config_file)
    IN  (/\ is_authenticated(session_state)
         /\ session_state.username # "public"
         /\ subscription_of(session_state.auth_config, session_state.username) # "public") =>
            /\ user.username # "public"
            /\ user.subscription # "public"
            /\ ExportRendered => export_page.logout_button


(* ---- C26: the navigation gate and the page gate ---- *)
\* C26: for the user record of a rendered Data Export page, the sidebar
\* enables its Data Export button exactly when the page shows the premium
\* export view, and the dashboard of a logged-in user offers Data Export
\* exactly then.
\* Violated: for a logged-in premium user named 'public' the sidebar and
\* the dashboard open the way to a page that refuses the user.
C26_GatesAgree ==
    (ExportRendered /\ export_page.page # "exception") =>
        /\ export_page.nav_export <=> export_page.page = "premium_export"
        /\ is_authenticated(session_state) =>
              (dash_export(export_page.user) <=> export_page.page = "premium_export")

\* what does hold: the sidebar and the dashboard agree with each other, and
\* with the page for every username but 'public'
GatesAgreeUnlessNamedPublic ==
    (ExportRendered /\ export_page.page # "exception") =>
        /\ export_page.nav_export <=> dash_export(export_page.user)
        /\ export_page.user.username # "public" =>
              (export_page.nav_export <=> export_page.page = "premium_export")


(* ---- C27: the export tabs ---- *)
PremiumRendered == ExportRendered /\ export_page.page = "premium_export"

\* the page ends with the export history and the footer
EndsWithHistoryAndFooter(sections) ==
    /\ Len(sections) >= 2
    /\ sections[Len(sections) - 1] = "export_history"
    /\ sections[Len(sections)] = "footer"

\* C27: for a premium user, whichever of the four tabs is selected, the
\* page renders without an error and ends with the export history and the
\* footer, and the API Access tab shows the API key made from the
\* username of the logged-in user.
\* Violated: render_api_access_tab reads a name, user, that it cannot see.
C27_TabsComplete ==
    PremiumRendered =>
        /\ export_page.raised = "none"
        /\ EndsWithHistoryAndFooter(export_page.sections)
        /\ export_page.tab = "API Access" =>
              export_page.api_key = api_key_of(session_state.username)

\* what does hold: the three other tabs complete
OtherTabsComplete ==
    (PremiumRendered /\ export_page.tab # "API Access") =>
        /\ export_page.raised = "none"
        /\ EndsWithHistoryAndFooter(export_page.sections)

\* and the API Access tab never does
ApiAccessTabRaises ==
    (PremiumRendered /\ export_page.tab = "API Access") =>
        /\ export_page.raised = "NameError"
        /\ export_page.api_key = NoApiKey
        /\ ~EndsWithHistoryAndFooter(export_page.sections)

(* ---- C28: the cadence the views of the last D days assume ---- *)
\* a chart labelled with a number of days is on the page
DaysChart == "chart_data" \in DOMAIN shown /\ shown.days # AllDays

\* the trailing min(L, days x samples-per-day) samples of a series of length L
TrailingDays(d, days, c) ==
    SubSeq(d, Len(d) - Min2(Len(d), days * c) + 1, Len(d))

\* C28: every chart labelled as the last D days, on the charts page and on
\* the homepage, shows exactly the trailing min(L, D x samples-per-day)
\* samples of the fetched series of length L, for the cadence of the fetch.
C28_OneCadence ==
    DaysChart =>
        shown.chart_data = TrailingDays(df, shown.days, call.samples_per_day)

\* the charts page takes every series as hourly
ChartsPageTakesHourly ==
    (DaysChart /\ page = "chart") =>
        shown.chart_data = TrailingDays(df, shown.days, HoursPerDay)

\* and the homepage takes every series as daily
HomepageTakesDaily ==
    (DaysChart /\ page \in HomeCharts) =>
        shown.chart_data = TrailingDays(df, shown.days, 1)

\* so a chart shows the days of its label when the fetch has the cadence
\* its page assumes, or when the series is shorter than both windows
ChartsAgreeOnShortSeries ==
    (DaysChart /\ Len(df) <= shown.days) =>
        shown.chart_data = TrailingDays(df, shown.days, call.samples_per_day)

\* a daily series on the charts page: the '7D' chart shows more than 7 days
DailySeriesOnChartsPage ==
    /\ DaysChart /\ page = "chart"
    /\ call.samples_per_day = 1
    /\ shown.label = "7D"
    /\ Len(shown.chart_data) > 7

\* an hourly series on the homepage: the 30-day preview shows 30 hours
HourlySeriesOnHomepage ==
    /\ DaysChart /\ page = "public_home"
    /\ call.samples_per_day = HoursPerDay
    /\ Len(df) > PreviewRows
    /\ Len(shown.chart_data) = PreviewRows

====
